---- MODULE Spec2Model ----
(***************************************************************************)
(* Gemini AI Image Studio (app.py): the request adapter `generate`, the    *)
(* interaction controller `process_image_and_prompt`, and the credential   *)
(* handlers `update_env_file`, `refresh_environment`, `save_and_refresh`.  *)
(*                                                                         *)
(* Strings are sequences of one-character strings.  An optional value is   *)
(* None (<<>>) or Some(v) (<<v>>).  Progress fractions are percentages.    *)
(* os.unlink is taken to succeed on a file that exists.                    *)
(***************************************************************************)
EXTENDS Integers, Sequences, FiniteSets, TLC

VARIABLES
    environ,        \* os.environ.get("GEMINI_API_KEY"): None or Some(string)
    envFile,        \* content of ./.env: None (no file) or Some(characters)
    lastCred,       \* outcome of the credential handler that ran last; None once a request is submitted
    pc,             \* position of the one request in flight
    composite,      \* composite_pil as handed over by the UI: None or Some(image)
    tmp_path,       \* process_image_and_prompt's local tmp_path: None while unbound
    disk,           \* temporary files on disk: path -> content
    created,        \* paths created by the request in flight
    api_key,        \* generate's api_key: None before line 25 ran, then Some(what os.getenv returned)
    stream,         \* the chunks taken from the response stream so far, in arrival order
    chunk_count,    \* generate's chunk_count
    text_response,  \* generate's text_response
    image_path,     \* generate's image_path: None or Some(path)
    temp_path,      \* generate's temp_path: None before the .png is created
    generated,      \* None, or Some(the pair generate returned)
    progressLog,    \* fractions reported to gr.Progress in this request, in order
    calls,          \* how often each step / network call ran in this request
    raisedAt,       \* None, or Some(step) where an exception was raised
    outputs,        \* None, or Some(the three values returned to the UI)
    uiErrors        \* gr.Error notifications raised for this request

vars == <<environ, envFile, lastCred, pc, composite, tmp_path, disk, created,
          api_key, stream, chunk_count, text_response, image_path, temp_path,
          generated, progressLog, calls, raisedAt, outputs, uiErrors>>

credVars == <<environ, envFile, lastCred>>
reqVars == <<pc, composite, tmp_path, disk, created, api_key, stream, chunk_count,
             text_response, image_path, temp_path, generated, progressLog, calls,
             raisedAt, outputs, uiErrors>>

----------------------------------------------------------------------------
(* Bounds of the model. *)

\* longest response stream the service delivers
MaxChunks == 3
\* longest credential string typed into the API key box
MaxKeyLen == 3
\* temporary files the disk holds at once
MaxFiles == 3

None == <<>>
Some(v) == <<v>>
Val(o) == o[1]

Min(a, b) == IF a < b THEN a ELSE b

----------------------------------------------------------------------------
(* Images (PIL).  An image is its mode and one value per band.             *)

Bands(mode) ==
    CASE mode = "RGBA" -> {"R", "G", "B", "A"}
      [] mode = "RGB"  -> {"R", "G", "B"}
      [] mode = "LA"   -> {"L", "A"}
      [] mode = "L"    -> {"L"}

NewImage(mode) == [mode |-> mode, px |-> [b \in Bands(mode) |-> 1]]

\* Image.convert("RGB"): three colour bands, the alpha band dropped
ConvertRGB(img) ==
    [mode |-> "RGB",
     px |-> [b \in {"R", "G", "B"} |->
                IF b \in DOMAIN img.px THEN img.px[b] ELSE img.px["L"]]]

\* `if img.mode == "RGBA": img = img.convert("RGB")`
NormalizeMode(img) == IF img.mode = "RGBA" THEN ConvertRGB(img) ELSE img

\* Image.save(format="JPEG") refuses modes with an alpha band
JpegWritable(img) == img.mode \in {"RGB", "L"}

\* what the UI hands over: nothing, or an image (gr.Image image_mode="RGBA")
Composites == {None} \cup {Some(NewImage(m)) : m \in {"RGBA", "RGB", "LA"}}

\* inline payloads the service may send: PNG files of several modes, or junk
Blobs == {"png_rgb", "png_rgba", "png_la", "junk"}

\* Image.open(path) on a file holding `content`: None when it cannot be decoded
Decode(content) ==
    CASE content = "png_rgb"  -> Some(NewImage("RGB"))
      [] content = "png_rgba" -> Some(NewImage("RGBA"))
      [] content = "png_la"   -> Some(NewImage("LA"))
      [] OTHER                -> None

----------------------------------------------------------------------------
(* Response chunks, as far as generate reads them.                         *)
(*   empty  : no candidates / content / parts                              *)
(*   text   : parts[0] has no inline_data, chunk.text is a string          *)
(*   notext : parts[0] has no inline_data, chunk.text is None              *)
(*   inline : parts[0].inline_data is set, its data is `data`              *)
(*   error  : the iterator raises instead of yielding a chunk              *)

Texts == {<<>>, <<"a">>, <<"b">>}

Chunks ==
    {[kind |-> "empty"], [kind |-> "notext"], [kind |-> "error"]}
    \cup {[kind |-> "text", text |-> t] : t \in Texts}
    \cup {[kind |-> "inline", data |-> d] : d \in Blobs}

\* line 68: the chunk carries candidate content parts
HasParts(c) == c.kind \in {"text", "notext", "inline"}

\* line 74: `if candidate.inline_data`
HasInline(c) == c.kind = "inline"

AppendText_Prepend(acc, t) == t \o <<"\n">> \o acc

\* line 82: text_response += chunk.text + "\n"
AppendText(acc, t) == acc \o t \o <<"\n">>

\* line 71: 0.2 + min(0.6 * (chunk_count / 10), 0.6)
ChunkProgress(n) == 20 + Min(6 * n, 60)

BreaksLoop_Never(c) == FALSE

\* line 79: leave the loop once an image chunk was handled
BreaksLoop(c) == HasInline(c)

----------------------------------------------------------------------------
(* Temporary files.                                                        *)

Paths == 1..MaxFiles

\* tempfile.NamedTemporaryFile(delete=False): a path not on disk yet
FreshPath(d) == CHOOSE p \in Paths \ DOMAIN d : \A q \in Paths \ DOMAIN d : p <= q

WriteFile(d, p, content) == [q \in DOMAIN d \cup {p} |-> IF q = p THEN content ELSE d[q]]

\* os.unlink(path) inside try/except: an unbound name deletes nothing
Unlink(d, optPath) ==
    IF optPath = None THEN d
    ELSE [q \in DOMAIN d \ {Val(optPath)} |-> d[q]]

----------------------------------------------------------------------------
(* Credentials.                                                            *)

KeyMissing_UnsetOnly(k) == k = None

\* line 26: `if not api_key`
KeyMissing(k) == k = None \/ Val(k) = <<>>

\* characters a credential string is made of
KeyChars == {"a", " ", "#", "'"}

KeyStrings == UNION {[1..n -> KeyChars] : n \in 0..MaxKeyLen}

\* line 150: f.write(f"GEMINI_API_KEY={api_key}\n")
FormatEnvLine(s) == <<"GEMINI_API_KEY", "=">> \o s \o <<"\n">>

RECURSIVE LStrip(_)
LStrip(s) == IF s # <<>> /\ Head(s) = " " THEN LStrip(Tail(s)) ELSE s

RECURSIVE RStrip(_)
RStrip(s) ==
    IF s # <<>> /\ s[Len(s)] = " " THEN RStrip(SubSeq(s, 1, Len(s) - 1)) ELSE s

\* python-dotenv, unquoted value: re.sub(r"\s+#.*", "", part).rstrip()
UnquotedValue(part) ==
    LET hashes == {i \in 2..Len(part) : part[i] = "#" /\ part[i - 1] = " "}
    IN  IF hashes = {} THEN RStrip(part)
        ELSE LET h == CHOOSE i \in hashes : \A j \in hashes : i <= j
             IN  RStrip(SubSeq(part, 1, h - 1))

\* python-dotenv, single-quoted value: '...' then only blanks or a comment
\* may follow on the line; anything else makes the binding invalid (None)
QuotedValue(r) ==
    LET closes == {i \in 2..Len(r) : r[i] = "'"}
    IN  IF closes = {} THEN None
        ELSE LET c == CHOOSE i \in closes : \A j \in closes : i <= j
                 rest == LStrip(SubSeq(r, c + 1, Len(r)))
             IN  IF rest = <<>> \/ Head(rest) = "#"
                 THEN Some(SubSeq(r, 2, c - 1))
                 ELSE None

\* python-dotenv parse_binding on the line `GEMINI_API_KEY=<raw>\n`:
\* Some(value), or None when the line is not a valid binding
ParseValue(raw) ==
    LET r == LStrip(raw)
    IN  IF r = <<>> THEN Some(<<>>)
        ELSE IF Head(r) = "'" THEN QuotedValue(r)
        ELSE Some(UnquotedValue(r))

ParseEnvFile(content) == ParseValue(SubSeq(content, 3, Len(content) - 1))

\* load_dotenv(override=...): the new os.environ["GEMINI_API_KEY"]
LoadDotenv(env, file, override) ==
    IF file = None THEN env
    ELSE LET b == ParseEnvFile(Val(file))
         IN  IF b = None THEN env
             ELSE IF env # None /\ ~override THEN env
             ELSE b

----------------------------------------------------------------------------
(* Initial state: the module was imported, load_dotenv() (line 17) ran.    *)

NoCalls == [save |-> 0, generate |-> 0, upload |-> 0, stream |-> 0, open |-> 0]

\* the request-local state before a request runs
RequestReset(c) ==
    /\ composite' = c
    /\ tmp_path' = None
    /\ created' = {}
    /\ api_key' = None
    /\ stream' = <<>>
    /\ chunk_count' = 0
    /\ text_response' = <<>>
    /\ image_path' = None
    /\ temp_path' = None
    /\ generated' = None
    /\ progressLog' = <<>>
    /\ calls' = NoCalls
    /\ raisedAt' = None
    /\ outputs' = None
    /\ uiErrors' = 0

Init ==
    /\ envFile \in {None, Some(FormatEnvLine(<<"a">>))}
    /\ \E shellKey \in {None, Some(<<"a">>)} :
           environ = LoadDotenv(shellKey, envFile, FALSE)
    /\ lastCred = None
    /\ pc = "idle"
    /\ composite = None
    /\ tmp_path = None
    /\ disk = <<>>
    /\ created = {}
    /\ api_key = None
    /\ stream = <<>>
    /\ chunk_count = 0
    /\ text_response = <<>>
    /\ image_path = None
    /\ temp_path = None
    /\ generated = None
    /\ progressLog = <<>>
    /\ calls = NoCalls
    /\ raisedAt = None
    /\ outputs = None
    /\ uiErrors = 0

----------------------------------------------------------------------------
(* The credential handlers (lines 142-167, 478-481).                       *)

Idle == pc \in {"idle", "done"}

\* update_env_file then refresh_environment; open() may fail, which
\* update_env_file reports as a message and leaves the file as it was
SaveAndRefresh(s) ==
    /\ Idle
    /\ \/ /\ envFile' = Some(FormatEnvLine(s))
          /\ environ' = LoadDotenv(environ, envFile', TRUE)
          /\ lastCred' = Some([op |-> "save_and_refresh", saved |-> TRUE, key |-> s,
                               loaded |-> ~KeyMissing(environ')])
       \/ /\ UNCHANGED envFile
          /\ environ' = LoadDotenv(environ, envFile, TRUE)
          /\ lastCred' = Some([op |-> "save_and_refresh", saved |-> FALSE,
                               loaded |-> ~KeyMissing(environ')])
    /\ UNCHANGED reqVars

RefreshEnvironment ==
    /\ Idle
    /\ environ' = LoadDotenv(environ, envFile, TRUE)
    /\ lastCred' = Some([op |-> "refresh_environment",
                         loaded |-> ~KeyMissing(environ')])
    /\ UNCHANGED <<envFile, reqVars>>

----------------------------------------------------------------------------
(* process_image_and_prompt (lines 88-140) and generate (lines 23-86).     *)

Report(f) == progressLog' = Append(progressLog, f)

Count(step) == calls' = [calls EXCEPT ![step] = @ + 1]

\* an exception leaves the try block for the handler at line 134
Raise(step) ==
    /\ raisedAt' = Some(step)
    /\ pc' = "except"

\* submit_btn.click (line 528): the UI hands image and prompt to the handler
Submit(c) ==
    /\ Idle
    /\ Cardinality(DOMAIN disk) + 2 <= MaxFiles
    /\ RequestReset(c)
    /\ pc' = "normalize"
    /\ lastCred' = None
    /\ UNCHANGED <<environ, envFile, disk>>

\* lines 91-94
Normalize ==
    /\ pc = "normalize"
    /\ Report(10)
    /\ IF composite = None
       THEN /\ Raise("normalize")
            /\ UNCHANGED composite
       ELSE /\ composite' = Some(NormalizeMode(Val(composite)))
            /\ pc' = "save"
            /\ UNCHANGED raisedAt
    /\ UNCHANGED <<credVars, tmp_path, disk, created, api_key, stream, chunk_count,
                   text_response, image_path, temp_path, generated, calls,
                   outputs, uiErrors>>

\* lines 97-99: the file exists once NamedTemporaryFile returns; tmp_path is
\* bound only after save() returned
SaveInput ==
    /\ pc = "save"
    /\ Count("save")
    /\ LET p == FreshPath(disk)
       IN  /\ created' = created \cup {p}
           /\ \/ /\ JpegWritable(Val(composite))
                 /\ disk' = WriteFile(disk, p, "jpeg")
                 /\ tmp_path' = Some(p)
                 /\ pc' = "generate"
                 /\ UNCHANGED raisedAt
              \/ /\ disk' = WriteFile(disk, p, "empty")
                 /\ Raise("save")
                 /\ UNCHANGED tmp_path
    /\ UNCHANGED <<credVars, composite, api_key, stream, chunk_count,
                   text_response, image_path, temp_path, generated, progressLog,
                   outputs, uiErrors>>

\* line 102, then generate's lines 25-27
GenerateEnter ==
    /\ pc = "generate"
    /\ Report(20)
    /\ Count("generate")
    /\ api_key' = Some(environ)
    /\ IF KeyMissing(environ)
       THEN Raise("credential")
       ELSE /\ pc' = "upload"
            /\ UNCHANGED raisedAt
    /\ UNCHANGED <<credVars, composite, tmp_path, disk, created, stream,
                   chunk_count, text_response, image_path, temp_path, generated,
                   outputs, uiErrors>>

\* lines 30-33: client.files.upload, which may fail
Upload ==
    /\ pc = "upload"
    /\ Report(0)
    /\ Count("upload")
    /\ \/ /\ pc' = "open_stream"
          /\ UNCHANGED raisedAt
       \/ Raise("upload")
    /\ UNCHANGED <<credVars, composite, tmp_path, disk, created, api_key, stream,
                   chunk_count, text_response, image_path, temp_path, generated,
                   outputs, uiErrors>>

\* lines 56-63: the .png is created, generate_content_stream is called
OpenStream ==
    /\ pc = "open_stream"
    /\ text_response' = <<>>
    /\ image_path' = None
    /\ Report(20)
    /\ LET p == FreshPath(disk)
       IN  /\ disk' = WriteFile(disk, p, "empty")
           /\ created' = created \cup {p}
           /\ temp_path' = Some(p)
    /\ chunk_count' = 0
    /\ Count("stream")
    /\ pc' = "stream"
    /\ UNCHANGED <<credVars, composite, tmp_path, api_key, stream, generated,
                   raisedAt, outputs, uiErrors>>

\* lines 63-82: one turn of the loop on the next chunk c of the stream
NextChunk(c) ==
    /\ pc = "stream"
    /\ Len(stream) < MaxChunks
    /\ stream' = Append(stream, c)
    /\ CASE c.kind = "error" ->
              /\ Raise("stream")
              /\ UNCHANGED <<chunk_count, progressLog, disk, image_path, text_response>>
         [] ~HasParts(c) ->
              UNCHANGED <<pc, raisedAt, chunk_count, progressLog, disk, image_path,
                          text_response>>
         [] HasInline(c) ->
              /\ chunk_count' = chunk_count + 1
              /\ progressLog' = progressLog \o <<ChunkProgress(chunk_count'), 90>>
              /\ disk' = WriteFile(disk, Val(temp_path), c.data)
              /\ image_path' = temp_path
              /\ pc' = IF BreaksLoop(c) THEN "return" ELSE "stream"
              /\ UNCHANGED <<raisedAt, text_response>>
         [] c.kind = "text" ->
              /\ chunk_count' = chunk_count + 1
              /\ Report(ChunkProgress(chunk_count'))
              /\ text_response' = AppendText(text_response, c.text)
              /\ UNCHANGED <<pc, raisedAt, disk, image_path>>
         [] c.kind = "notext" ->
              /\ chunk_count' = chunk_count + 1
              /\ Report(ChunkProgress(chunk_count'))
              /\ Raise("text")
              /\ UNCHANGED <<disk, image_path, text_response>>
    /\ UNCHANGED <<credVars, composite, tmp_path, created, api_key, temp_path,
                   generated, calls, outputs, uiErrors>>

\* line 63: the stream is exhausted
StreamEnd ==
    /\ pc = "stream"
    /\ pc' = "return"
    /\ UNCHANGED <<credVars, composite, tmp_path, disk, created, api_key, stream,
                   chunk_count, text_response, image_path, temp_path, generated,
                   progressLog, calls, raisedAt, outputs, uiErrors>>

GenerateResult_OneVariant(path, text) ==
    [image_path |-> path, text_response |-> IF path # None THEN <<>> ELSE text]

\* line 86: return image_path, text_response
GenerateResult(path, text) == [image_path |-> path, text_response |-> text]

\* lines 84-86, and the branch at line 105
GenerateReturn ==
    /\ pc = "return"
    /\ Report(100)
    /\ generated' = Some(GenerateResult(image_path, text_response))
    /\ pc' = IF image_path # None THEN "image_result" ELSE "text_result"
    /\ UNCHANGED <<credVars, composite, tmp_path, disk, created, api_key, stream,
                   chunk_count, text_response, image_path, temp_path, calls,
                   raisedAt, outputs, uiErrors>>

ImageOutputs_KeepText(display_img, text, result_img) ==
    [gallery |-> Some(display_img), text |-> text, download |-> Some(result_img)]

\* line 124: the values returned when the adapter produced an image
ImageOutputs(display_img, text, result_img) ==
    [gallery |-> Some(display_img), text |-> <<>>, download |-> Some(result_img)]

\* line 133: the values returned when it did not
TextOutputs(text) == [gallery |-> None, text |-> text, download |-> None]

\* lines 105-124
ImageResult ==
    /\ pc = "image_result"
    /\ Count("open")
    /\ LET opened == Decode(disk[Val(Val(generated).image_path)])
       IN  IF opened = None
           THEN /\ Report(90)
                /\ Raise("reopen")
                /\ UNCHANGED <<disk, outputs>>
           ELSE LET result_img == NormalizeMode(Val(opened))
                    display_img == result_img
                IN  /\ disk' = Unlink(Unlink(disk, tmp_path), Val(generated).image_path)
                    /\ progressLog' = progressLog \o <<90, 100>>
                    /\ outputs' = Some(ImageOutputs(display_img,
                                                    Val(generated).text_response,
                                                    result_img))
                    /\ pc' = "done"
                    /\ UNCHANGED raisedAt
    /\ UNCHANGED <<credVars, composite, tmp_path, created, api_key, stream, chunk_count,
                   text_response, image_path, temp_path, generated, uiErrors>>

\* lines 125-133
TextResult ==
    /\ pc = "text_result"
    /\ disk' = Unlink(disk, tmp_path)
    /\ Report(100)
    /\ outputs' = Some(TextOutputs(Val(generated).text_response))
    /\ pc' = "done"
    /\ UNCHANGED <<credVars, composite, tmp_path, created, api_key, stream, chunk_count,
                   text_response, image_path, temp_path, generated, calls,
                   raisedAt, uiErrors>>

HandleError_Swallow ==
    /\ pc = "except"
    /\ disk' = Unlink(disk, tmp_path)
    /\ outputs' = Some(TextOutputs(<<>>))
    /\ pc' = "done"
    /\ UNCHANGED <<credVars, composite, tmp_path, created, api_key, stream,
                   chunk_count, text_response, image_path, temp_path, generated,
                   progressLog, calls, raisedAt, uiErrors>>

\* lines 134-140: the handler deletes tmp_path and raises gr.Error
HandleError ==
    /\ pc = "except"
    /\ disk' = Unlink(disk, tmp_path)
    /\ uiErrors' = uiErrors + 1
    /\ outputs' = None
    /\ pc' = "done"
    /\ UNCHANGED <<credVars, composite, tmp_path, created, api_key, stream, chunk_count,
                   text_response, image_path, temp_path, generated, progressLog,
                   calls, raisedAt>>

----------------------------------------------------------------------------
(* The request flow, with the credential taken from a small set.           *)

RequestKeys == {<<>>, <<"a">>}

Next ==
    \/ \E s \in RequestKeys : SaveAndRefresh(s)
    \/ RefreshEnvironment
    \/ \E c \in Composites : Submit(c)
    \/ Normalize
    \/ SaveInput
    \/ GenerateEnter
    \/ Upload
    \/ OpenStream
    \/ \E c \in Chunks : NextChunk(c)
    \/ StreamEnd
    \/ GenerateReturn
    \/ ImageResult
    \/ TextResult
    \/ HandleError

Spec == Init /\ [][Next]_vars

(* The credential handlers alone, over every credential string.            *)

CredNext ==
    \/ \E s \in KeyStrings : SaveAndRefresh(s)
    \/ RefreshEnvironment

CredSpec == Init /\ [][CredNext]_vars

----------------------------------------------------------------------------
(* Properties.                                                             *)

\* the request in flight has ended
Finished == pc = "done"

\* k is the position of the first chunk of st that carries inline data
FirstInlineAt(st, k) ==
    /\ k \in 1..Len(st)
    /\ st[k].kind = "inline"
    /\ \A j \in 1..(k - 1) : st[j].kind # "inline"

NoInline(st) == \A k \in 1..Len(st) : st[k].kind # "inline"

\* the text fields of st's chunks in arrival order, a newline after each;
\* a chunk without candidate content has no text field
RECURSIVE TextOf(_)
TextOf(st) ==
    IF st = <<>> THEN <<>>
    ELSE (IF Head(st).kind = "text" THEN Head(st).text \o <<"\n">> ELSE <<>>)
         \o TextOf(Tail(st))

\* the chunks of st that arrived before its first inline-data chunk
RECURSIVE BeforeImage(_)
BeforeImage(st) ==
    IF st = <<>> \/ Head(st).kind = "inline" THEN <<>>
    ELSE <<Head(st)>> \o BeforeImage(Tail(st))

HasAlpha(img) == "A" \in DOMAIN img.px

\* C1: once a request has ended (result or error), no temporary file created
\* during it is left on disk.
C1_NoTempFileRemains == Finished => created \cap DOMAIN disk = {}

\* C2: when the k-th chunk is the first to carry inline data, no chunk after
\* the k-th is taken from the stream, the loop is left, and the file at the
\* image path generate returns holds exactly that chunk's data.
C2_FirstImageEndsStream ==
    \A k \in 1..Len(stream) :
        FirstInlineAt(stream, k) =>
            /\ Len(stream) = k
            /\ pc # "stream"
            /\ generated # None =>
                   /\ Val(generated).image_path # None
                   /\ pc = "image_result" =>
                          disk[Val(Val(generated).image_path)] = stream[k].data

C2_Witness ==
    /\ pc = "image_result"
    /\ Len(stream) = 3
    /\ stream[1].kind = "text"
    /\ stream[2].kind = "empty"
    /\ FirstInlineAt(stream, 3)
    /\ disk[Val(Val(generated).image_path)] = "png_rgba"

\* C3: for a stream without inline-data chunks, the text generate returns is
\* the concatenation, in arrival order, of every chunk's text field, each
\* followed by a newline.
C3_TextIsConcatenation ==
    (generated # None /\ NoInline(stream)) =>
        Val(generated).text_response = TextOf(stream)

C3_Witness ==
    /\ generated # None
    /\ stream = <<[kind |-> "text", text |-> <<"a">>], [kind |-> "empty"],
                  [kind |-> "text", text |-> <<"b">>]>>
    /\ Val(generated).text_response = <<"a", "\n", "b", "\n">>

\* C4: when the credential generate reads is unset or empty, generate raises
\* and neither the upload nor the streaming call is made in that request.
C4_MissingKeyFailsFast ==
    (api_key # None /\ (Val(api_key) = None \/ Val(Val(api_key)) = <<>>)) =>
        /\ calls.upload = 0
        /\ calls.stream = 0
        /\ raisedAt = Some("credential")

C4_Witness ==
    /\ Finished
    /\ api_key = Some(Some(<<>>))
    /\ raisedAt = Some("credential")
    /\ uiErrors = 1

\* C5: after save_and_refresh wrote the credential s, the active credential
\* (what the next generate call reads) is exactly s.
C5_SavedKeyIsActive ==
    (lastCred # None /\ Val(lastCred).op = "save_and_refresh" /\ Val(lastCred).saved)
        => environ = Some(Val(lastCred).key)

\* C6: an exception at any step ends the request with exactly one gr.Error
\* and no result, and no step of the flow runs twice.
C6_ExceptionSurfacesOnce ==
    /\ uiErrors <= 1
    /\ \A step \in DOMAIN calls : calls[step] <= 1
    /\ raisedAt = None => uiErrors = 0
    /\ raisedAt # None =>
           /\ pc \in {"except", "done"}
           /\ outputs = None
           /\ Finished => uiErrors = 1

C6_Witness ==
    /\ Finished
    /\ raisedAt = Some("stream")
    /\ Len(stream) = 2
    /\ uiErrors = 1
    /\ calls.stream = 1

\* C7: when the request produced an image, the display image and the
\* downloadable image are pixel-identical and neither has an alpha channel.
C7_ImagesIdenticalAndOpaque ==
    (Finished /\ outputs # None /\ Val(outputs).gallery # None) =>
        /\ Val(Val(outputs).gallery) = Val(Val(outputs).download)
        /\ ~HasAlpha(Val(Val(outputs).gallery))
        /\ ~HasAlpha(Val(Val(outputs).download))

\* C8 as stated: generate never returns both an image path and non-empty text.
C8_NeverBoth ==
    generated # None =>
        ~(Val(generated).image_path # None /\ Val(generated).text_response # <<>>)

\* C8 as amended: generate returns an image path exactly when the stream
\* delivered an inline-data chunk, and the text it returns is that of the
\* chunks that arrived before that chunk (of all chunks when there is none).
C8_ImageIffInlineTextBefore ==
    generated # None =>
        /\ (Val(generated).image_path # None) <=> ~NoInline(stream)
        /\ Val(generated).text_response = TextOf(BeforeImage(stream))

C8_Witness ==
    /\ generated # None
    /\ Val(generated).image_path # None
    /\ Val(generated).text_response = <<"b", "\n">>

\* C9: a normal return has one of two shapes: (image, empty text, image) when
\* the adapter returned an image, (nothing, the adapter's text, nothing)
\* when it did not; text delivered before an image is not shown with it.
C9_TwoOutputShapes ==
    outputs # None =>
        /\ generated # None
        /\ IF Val(generated).image_path # None
           THEN /\ Val(outputs).gallery # None
                /\ Val(outputs).text = <<>>
                /\ Val(outputs).download # None
           ELSE /\ Val(outputs).gallery = None
                /\ Val(outputs).text = Val(generated).text_response
                /\ Val(outputs).download = None

C9_Witness ==
    /\ Finished
    /\ outputs # None
    /\ Val(generated).image_path # None
    /\ Val(generated).text_response # <<>>
    /\ Val(outputs).text = <<>>

\* C10: the fractions reported within one request never decrease and all lie
\* in [0, 1].
C10_ProgressMonotone ==
    /\ \A i \in 1..Len(progressLog) : progressLog[i] \in 0..100
    /\ \A i \in 1..(Len(progressLog) - 1) : progressLog[i] <= progressLog[i + 1]

====
